---- MODULE Spec2Model ----
(***************************************************************************)
(* Model of src/app.py: the freshness cache (get_cached_data over the two  *)
(* module-level dictionaries data_cache and cache_timestamp), the request  *)
(* handler get_analysis that reads tickers and candles through it, and the *)
(* pure computations of the analysis report.                               *)
(*                                                                         *)
(* The Flask development server started by app.run serves each request on  *)
(* its own thread, so several get_cached_data calls interleave at the      *)
(* granularity of their reads and writes of the two dictionaries.          *)
(***************************************************************************)
EXTENDS Integers, Sequences, FiniteSets, TLC

(***************************************************************************)
(* Bounds of the model.                                                    *)
(***************************************************************************)
\* the clock advances at most MaxTicks times
MaxTicks == 3

(***************************************************************************)
(* Program constants.                                                      *)
(***************************************************************************)
CACHE_DURATION == 300

\* one clock step: half the cache duration, so that ages of 150 s (fresh),
\* exactly 300 s (the boundary) and more are all reached
TickStep == CACHE_DURATION \div 2

\* the request threads of the server
Threads == {"t1", "t2"}

\* the symbol the analysis requests are made for
Symbol == "ADAUSDT"

\* cache keys: the ticker batch, the candle window of Symbol, and the key of
\* a caller that passes its own fetch function
TickersKey == "binance_tickers"
KlinesKey == "klines_" \o Symbol \o "_1d_90"
OtherKey == "k"
Keys == {TickersKey, KlinesKey, OtherKey}

\* Python's None
None == "None"

\* what each fetch function can return
\* fetch_binance_data: a ticker list (live, or the mock list as last resort);
\* it catches its own exceptions and never raises
TICKERS == "tickers"
\* fetch_binance_klines: an empty DataFrame or a sorted, non-empty one
EMPTY_DF == "df_empty"
DF == "df"
\* a caller-supplied fetch function: any object, None included
Objects == {"v1", "v2"}

fetch_binance_data == "fetch_binance_data"
fetch_binance_klines == "fetch_binance_klines"
fetch_func == "fetch_func"

\* the values a call of fn can return
Returns(fn) ==
    CASE fn = fetch_binance_data -> {TICKERS}
      [] fn = fetch_binance_klines -> {EMPTY_DF, DF}
      [] OTHER -> {None} \cup Objects

\* whether a call of fn can raise
Raises(fn) == fn # fetch_binance_data

Values == {None, TICKERS, EMPTY_DF, DF} \cup Objects

NoThread == "nobody"

VARIABLES
    now,              \* datetime.now().timestamp(), in seconds
    data_cache,       \* dict: key -> value
    cache_timestamp,  \* dict: key -> time of the call that stored
    writer,           \* history: the thread whose line 41 last wrote data_cache[key]
    stamper,          \* history: the thread whose line 42 last wrote cache_timestamp[key]
    pc,               \* per thread: position in get_cached_data / the handler
    route,            \* per thread: who called get_cached_data
    key,              \* per thread: argument key
    func,             \* per thread: argument fetch_func
    current_time,     \* per thread: local current_time (line 29)
    data,             \* per thread: local data (line 40)
    ret,              \* per thread: value returned by get_cached_data
    tickers,          \* per thread: get_analysis's local tickers
    resp,             \* per thread: the response of the handler
    eng               \* the last call of one of the report's computations

vars == <<now, data_cache, cache_timestamp, writer, stamper, pc, route, key,
          func, current_time, data, ret, tickers, resp, eng>>

cacheVars == <<data_cache, cache_timestamp, writer, stamper>>

\* a dict with d[k] = v
Put(d, k, v) == [x \in DOMAIN d \cup {k} |-> IF x = k THEN v ELSE d[x]]

\* the empty dict
EmptyDict == [x \in {} |-> None]

NoValue == "-"

Init ==
    /\ now = 0
    /\ data_cache = EmptyDict
    /\ cache_timestamp = EmptyDict
    /\ writer = [k \in Keys |-> NoThread]
    /\ stamper = [k \in Keys |-> NoThread]
    /\ pc = [t \in Threads |-> "idle"]
    /\ route = [t \in Threads |-> NoValue]
    /\ key = [t \in Threads |-> NoValue]
    /\ func = [t \in Threads |-> NoValue]
    /\ current_time = [t \in Threads |-> 0]
    /\ data = [t \in Threads |-> NoValue]
    /\ ret = [t \in Threads |-> NoValue]
    /\ tickers = [t \in Threads |-> NoValue]
    /\ resp = [t \in Threads |-> NoValue]
    /\ eng = [op |-> NoValue]

\* time passes
Tick ==
    /\ now < MaxTicks * TickStep
    /\ now' = now + TickStep
    /\ UNCHANGED <<cacheVars, pc, route, key, func, current_time, data, ret, tickers, resp, eng>>

(***************************************************************************)
(* get_cached_data(key, fetch_func), lines 27-50.                          *)
(***************************************************************************)
\* line 29: entry, the clock is read
Enter(t, r, k, fn) ==
    /\ pc' = [pc EXCEPT ![t] = "check"]
    /\ route' = [route EXCEPT ![t] = r]
    /\ key' = [key EXCEPT ![t] = k]
    /\ func' = [func EXCEPT ![t] = fn]
    /\ current_time' = [current_time EXCEPT ![t] = now]
    /\ data' = [data EXCEPT ![t] = NoValue]
    /\ ret' = [ret EXCEPT ![t] = NoValue]

\* mutant of CacheValid: an entry aged exactly CACHE_DURATION still counts as valid
CacheValidInclusive(k, ct) ==
    /\ k \in DOMAIN data_cache
    /\ k \in DOMAIN cache_timestamp
    /\ ct - cache_timestamp[k] <= CACHE_DURATION

\* lines 32-33: is the cache valid for a call made at time ct
CacheValid(k, ct) ==
    /\ k \in DOMAIN data_cache
    /\ k \in DOMAIN cache_timestamp
    /\ ct - cache_timestamp[k] < CACHE_DURATION

\* lines 32-33 and 39-40: the check; a miss invokes fetch_func
Check(t) ==
    /\ pc[t] = "check"
    /\ pc' = [pc EXCEPT ![t] = IF CacheValid(key[t], current_time[t])
                               THEN "hit" ELSE "fetching"]
    /\ UNCHANGED <<now, cacheVars, route, key, func, current_time, data, ret, tickers, resp, eng>>

\* line 35: return data_cache[key]
ReturnCached(t) ==
    /\ pc[t] = "hit"
    /\ ret' = [ret EXCEPT ![t] = data_cache[key[t]]]
    /\ pc' = [pc EXCEPT ![t] = "ret"]
    /\ UNCHANGED <<now, cacheVars, route, key, func, current_time, data, tickers, resp, eng>>

\* mutant of StoreData: the first value stored for a key is kept
StoreDataIfAbsent(k, v) == IF k \in DOMAIN data_cache THEN data_cache ELSE Put(data_cache, k, v)

\* mutant of StoreData: an empty candle result is not stored
StoreDataNonEmpty(k, v) == IF v = EMPTY_DF THEN data_cache ELSE Put(data_cache, k, v)

\* line 41: data_cache[key] = data
StoreData(k, v) == Put(data_cache, k, v)

\* lines 40-41: fetch_func returns v, which is stored
FetchOk(t, v) ==
    /\ pc[t] = "fetching"
    /\ v \in Returns(func[t])
    /\ data' = [data EXCEPT ![t] = v]
    /\ data_cache' = StoreData(key[t], v)
    /\ writer' = [writer EXCEPT ![key[t]] = t]
    /\ pc' = [pc EXCEPT ![t] = "store_ts"]
    /\ UNCHANGED <<now, cache_timestamp, stamper, route, key, func, current_time, ret, tickers, resp, eng>>

\* lines 42-43: cache_timestamp[key] = current_time; return data
StoreTimestamp(t) ==
    /\ pc[t] = "store_ts"
    /\ cache_timestamp' = Put(cache_timestamp, key[t], current_time[t])
    /\ stamper' = [stamper EXCEPT ![key[t]] = t]
    /\ ret' = [ret EXCEPT ![t] = data[t]]
    /\ pc' = [pc EXCEPT ![t] = "ret"]
    /\ UNCHANGED <<now, data_cache, writer, route, key, func, current_time, data, tickers, resp, eng>>

\* mutant of Fallback: no stale value is served
FallbackNoStale(k) == None

\* lines 47-50: the value returned when fetch_func raised
Fallback(k) == IF k \in DOMAIN data_cache THEN data_cache[k] ELSE None

\* a dict without key k
Without(d, k) == [x \in DOMAIN d \ {k} |-> d[x]]

\* mutant of FetchRaise: a failed refresh evicts the entry
FetchRaiseEvict(t) ==
    /\ pc[t] = "fetching"
    /\ Raises(func[t])
    /\ ret' = [ret EXCEPT ![t] = Fallback(key[t])]
    /\ data_cache' = Without(data_cache, key[t])
    /\ cache_timestamp' = Without(cache_timestamp, key[t])
    /\ pc' = [pc EXCEPT ![t] = "ret"]
    /\ UNCHANGED <<now, writer, stamper, route, key, func, current_time, data, tickers, resp, eng>>

\* lines 44-50: fetch_func raises
FetchRaise(t) ==
    /\ pc[t] = "fetching"
    /\ Raises(func[t])
    /\ ret' = [ret EXCEPT ![t] = Fallback(key[t])]
    /\ pc' = [pc EXCEPT ![t] = "ret"]
    /\ UNCHANGED <<now, cacheVars, route, key, func, current_time, data, tickers, resp, eng>>

(***************************************************************************)
(* A caller with its own key and fetch function.                           *)
(***************************************************************************)
CallDirect(t) ==
    /\ pc[t] = "idle"
    /\ Enter(t, "direct", OtherKey, fetch_func)
    /\ UNCHANGED <<now, cacheVars, tickers, resp, eng>>

\* the thread's locals after its call or request has ended
Leave(t) ==
    /\ pc' = [pc EXCEPT ![t] = "idle"]
    /\ route' = [route EXCEPT ![t] = NoValue]
    /\ key' = [key EXCEPT ![t] = NoValue]
    /\ func' = [func EXCEPT ![t] = NoValue]
    /\ current_time' = [current_time EXCEPT ![t] = 0]
    /\ data' = [data EXCEPT ![t] = NoValue]
    /\ ret' = [ret EXCEPT ![t] = NoValue]

ReturnDirect(t) ==
    /\ pc[t] = "ret"
    /\ route[t] = "direct"
    /\ Leave(t)
    /\ UNCHANGED <<now, cacheVars, tickers, resp, eng>>

(***************************************************************************)
(* The computations of the report.  Prices, indicator values and percents  *)
(* are fixed-point numbers in hundredths (50.0 is 5000); a float that the  *)
(* forecast computes by division is kept as the fraction num/den, and the  *)
(* sentiment score is computed on doubles.                                 *)
(***************************************************************************)
\* pandas' NaN, and a number n, as a reading of an indicator series
NaN == << >>
Num(n) == <<n>>

Rat(n, d) == [num |-> n, den |-> d]

SumSeq(s) ==
    LET f[i \in 0..Len(s)] == IF i = 0 THEN 0 ELSE f[i - 1] + s[i]
    IN f[Len(s)]

Last(s) == s[Len(s)]

Abs(n) == IF n < 0 THEN -n ELSE n

Min(a, b) == IF a < b THEN a ELSE b

Max(a, b) == IF a > b THEN a ELSE b

\* Series.tail(n)
tail(s, n) == IF Len(s) <= n THEN s ELSE SubSeq(s, Len(s) - n + 1, Len(s))

\* lines 144-152: series.iloc[-1] unless it is NaN, else the fallback
LastOr(reading, fallback) == IF reading = NaN THEN fallback ELSE reading[1]

\* lines 159-161, 207-209: the number of votes for sig
Count(signals, sig) == Cardinality({i \in DOMAIN signals : signals[i] = sig})

\* mutant of WindowOverallSignal: BUY needs only as many votes as SELL
WindowOverallSignalBuyTies(signals) ==
    LET buy == Count(signals, "BUY")
        sell == Count(signals, "SELL")
        hold == Count(signals, "HOLD")
    IN IF buy >= sell /\ buy >= hold THEN "BUY"
       ELSE IF sell > buy /\ sell >= hold THEN "SELL"
       ELSE "HOLD"

\* lines 158-168: the overall signal of one timeframe
WindowOverallSignal(signals) ==
    LET buy == Count(signals, "BUY")
        sell == Count(signals, "SELL")
        hold == Count(signals, "HOLD")
    IN IF buy > sell /\ buy >= hold THEN "BUY"
       ELSE IF sell > buy /\ sell >= hold THEN "SELL"
       ELSE "HOLD"

\* lines 126-196: compute_for_window, given the window's closes and the last
\* readings r of the indicator series the ta library computes on them (lines
\* 129-142); the 'series' lists are not modelled
compute_for_window(close, r) ==
    LET rsi_last == LastOr(r.rsi, 5000)
        macd_last == LastOr(r.macd, 0)
        macd_signal_last == LastOr(r.macd_signal, 0)
        macd_hist_last == macd_last - macd_signal_last
        sma_20_last == LastOr(r.sma_20, Last(close))
        sma_50_last == LastOr(r.sma_50, Last(close))
        ema_12_last == LastOr(r.ema_12, Last(close))
        ema_26_last == LastOr(r.ema_26, Last(close))
        rsi_signal == IF rsi_last < 3000 THEN "BUY" ELSE IF rsi_last > 7000 THEN "SELL" ELSE "HOLD"
        macd_signal == IF macd_hist_last > 0 THEN "BUY" ELSE IF macd_hist_last < 0 THEN "SELL" ELSE "HOLD"
        ma_signal == IF sma_20_last > sma_50_last THEN "BUY"
                     ELSE IF sma_20_last < sma_50_last THEN "SELL" ELSE "HOLD"
        signals == <<rsi_signal, macd_signal, ma_signal>>
    IN [oscillators |->
            [rsi |-> [value |-> rsi_last, signal |-> rsi_signal],
             macd |-> [value |-> macd_last, signal |-> macd_signal]],
        moving_averages |->
            [sma_20 |-> [value |-> sma_20_last,
                         signal |-> IF Last(close) > sma_20_last THEN "BUY" ELSE "SELL"],
             sma_50 |-> [value |-> sma_50_last, signal |-> ma_signal],
             ema_12 |-> [value |-> ema_12_last,
                         signal |-> IF ema_12_last > ema_26_last THEN "BUY" ELSE "SELL"],
             ema_26 |-> [value |-> ema_26_last,
                         signal |-> IF ema_12_last > ema_26_last THEN "BUY" ELSE "SELL"]],
        signals |->
            [overall_signal |-> WindowOverallSignal(signals),
             summary |-> [buy |-> Count(signals, "BUY"),
                          sell |-> Count(signals, "SELL"),
                          hold |-> Count(signals, "HOLD")],
             details |-> [rsi |-> rsi_signal, macd |-> macd_signal,
                          moving_averages |-> ma_signal]]]

\* lines 202-216: the overall signal of the report
ReportOverallSignal(signals) ==
    LET buy == Count(signals, "BUY")
        sell == Count(signals, "SELL")
        hold == Count(signals, "HOLD")
    IN IF buy > sell /\ buy >= hold THEN "BUY"
       ELSE IF sell > buy /\ sell >= hold THEN "SELL"
       ELSE "HOLD"

\* mutant of compute_technical_analysis: the 1m timeframe has a window of its
\* own (here the 30-candle one) instead of the 1d timeframe's
compute_technical_analysis_own_1m(df, ta) ==
    LET w_1d == tail(df.close, 90)
        w_1w == tail(df.close, 30)
        w_1m == tail(df.close, 30)
        tf_1d == compute_for_window(w_1d, ta[Len(w_1d)])
        tf_1w == compute_for_window(w_1w, ta[Len(w_1w)])
        tf_1m == compute_for_window(w_1m, ta[Len(w_1m)])
        signals == <<tf_1d.signals.overall_signal,
                     tf_1w.signals.overall_signal,
                     tf_1m.signals.overall_signal>>
    IN [overall_signal |-> ReportOverallSignal(signals),
        tf_1d |-> tf_1d,
        tf_1w |-> tf_1w,
        tf_1m |-> tf_1m]

\* lines 125-223: compute_technical_analysis; ta[n] holds the readings of the
\* indicator series on the window of the last n candles
compute_technical_analysis(df, ta) ==
    LET w_1d == tail(df.close, 90)
        w_1w == tail(df.close, 30)
        w_1m == tail(df.close, 90)
        tf_1d == compute_for_window(w_1d, ta[Len(w_1d)])
        tf_1w == compute_for_window(w_1w, ta[Len(w_1w)])
        tf_1m == compute_for_window(w_1m, ta[Len(w_1m)])
        signals == <<tf_1d.signals.overall_signal,
                     tf_1w.signals.overall_signal,
                     tf_1m.signals.overall_signal>>
    IN [overall_signal |-> ReportOverallSignal(signals),
        tf_1d |-> tf_1d,
        tf_1w |-> tf_1w,
        tf_1m |-> tf_1m]

(***************************************************************************)
(* IEEE-754 double arithmetic (round to nearest, ties to even), as the     *)
(* interpreter performs it on Python floats.  A double is kept exactly, as *)
(* a sign and a magnitude in fixed point: Limbs digits of base LimbBase,   *)
(* most significant first, the first IntLimbs digits being the integer     *)
(* part (the magnitude is N / 2^FracBits for the integer N the digits      *)
(* spell).  Every double of magnitude 2^-31 or more and less than 2^28 is  *)
(* such a number, and so are the sums and differences of two of them.      *)
(***************************************************************************)
LimbBits == 14
LimbBase == 16384
IntLimbs == 2
Limbs == 8
FracBits == 84
Mantissa == 53

\* the digits f[1], ..., f[Limbs] as a sequence
Digits(f) == SubSeq(f, 1, Limbs)

\* the magnitude of the integer n, 0 <= n < LimbBase^2
FromInt(n) == Digits([i \in 1..Limbs |-> IF i = 1 THEN n \div LimbBase ELSE IF i = 2 THEN n % LimbBase ELSE 0])

\* the integer part of the magnitude a, and a without it
IntPart(a) == a[1] * LimbBase + a[2]

FracPart(a) == Digits([i \in 1..Limbs |-> IF i <= IntLimbs THEN 0 ELSE a[i]])

\* a + b
AddMag(a, b) ==
    LET c[i \in 1..Limbs + 1] == IF i = Limbs + 1 THEN 0 ELSE (a[i] + b[i] + c[i + 1]) \div LimbBase
    IN Digits([i \in 1..Limbs |-> (a[i] + b[i] + c[i + 1]) % LimbBase])

\* a - b, for a >= b
SubMag(a, b) ==
    LET br[i \in 1..Limbs + 1] == IF i = Limbs + 1 THEN 0 ELSE IF a[i] - b[i] - br[i + 1] < 0 THEN 1 ELSE 0
    IN Digits([i \in 1..Limbs |-> (a[i] - b[i] - br[i + 1] + LimbBase) % LimbBase])

\* a < b
LessMag(a, b) == \E i \in 1..Limbs : a[i] < b[i] /\ \A j \in 1..i - 1 : a[j] = b[j]

\* a * k for an integer k, 0 <= k < LimbBase, the product less than LimbBase^2
MulMag(a, k) ==
    LET c[i \in 1..Limbs + 1] == IF i = Limbs + 1 THEN 0 ELSE (a[i] * k + c[i + 1]) \div LimbBase
    IN Digits([i \in 1..Limbs |-> (a[i] * k + c[i + 1]) % LimbBase])

\* a / k for an integer k, 0 < k < 8 * LimbBase: the quotient truncated to
\* FracBits fractional bits, and whether anything was cut off
DivMag(a, k) ==
    LET r[i \in 0..Limbs] == IF i = 0 THEN 0 ELSE (r[i - 1] * LimbBase + a[i]) % k
    IN [quot |-> Digits([i \in 1..Limbs |-> (r[i - 1] * LimbBase + a[i]) \div k]), inexact |-> r[Limbs] # 0]

\* the number of bits of N (0 for N = 0)
BitLen(a) ==
    IF \A i \in 1..Limbs : a[i] = 0 THEN 0
    ELSE LET top == CHOOSE i \in 1..Limbs : a[i] # 0 /\ \A j \in 1..i - 1 : a[j] = 0
             bits == CHOOSE n \in 1..LimbBits : 2^(n - 1) <= a[top] /\ a[top] < 2^n
         IN (Limbs - top) * LimbBits + bits

\* N mod 2^p
LowBits(a, p) ==
    Digits([i \in 1..Limbs |->
        LET lo == (Limbs - i) * LimbBits
        IN IF lo >= p THEN 0 ELSE IF lo + LimbBits <= p THEN a[i] ELSE a[i] % 2^(p - lo)])

\* 2^p, 0 <= p < Limbs * LimbBits
Pow2(p) ==
    Digits([i \in 1..Limbs |->
        LET lo == (Limbs - i) * LimbBits
        IN IF lo <= p /\ p < lo + LimbBits THEN 2^(p - lo) ELSE 0])

\* bit p of N
BitAt(a, p) == (a[Limbs - (p \div LimbBits)] \div 2^(p % LimbBits)) % 2

ZeroMag == FromInt(0)

RECURSIVE DivideBits(_, _, _, _, _)
\* n steps of the division of a by b, b > 0, bit by bit from bit p of a on
\* (the bits below bit 0 are 0): s.r is the remainder so far and s.q the
\* quotient so far
DivideBits(a, b, p, n, s) ==
    LET r2 == AddMag(s.r, s.r)
        r3 == IF p >= 0 /\ BitAt(a, p) = 1 THEN [r2 EXCEPT ![Limbs] = @ + 1] ELSE r2
        q2 == AddMag(s.q, s.q)
    IN IF n = 0 THEN s
       ELSE IF LessMag(r3, b) THEN DivideBits(a, b, p - 1, n - 1, [r |-> r3, q |-> q2])
       ELSE DivideBits(a, b, p - 1, n - 1, [r |-> SubMag(r3, b), q |-> [q2 EXCEPT ![Limbs] = @ + 1]])

\* a * LimbBase^k
ShiftDigits(a, k) == Digits([i \in 1..Limbs |-> IF i + k <= Limbs THEN a[i + k] ELSE 0])

RECURSIVE LongDivision(_, _, _, _)
\* the division of a by b from digit d of a on, a digit's bits at a time,
\* over the digits of a and FracBits \div LimbBits more; once the digits of
\* a are used up and nothing remains, the digits left of the quotient are 0
LongDivision(a, b, d, s) ==
    LET last == Limbs + FracBits \div LimbBits
        next == DivideBits(a, b, (Limbs - d + 1) * LimbBits - 1, LimbBits, s)
    IN IF d > last THEN s
       ELSE IF d >= Limbs /\ next.r = ZeroMag THEN [r |-> ZeroMag, q |-> ShiftDigits(next.q, last - d)]
       ELSE LongDivision(a, b, d + 1, next)

\* a / b for a magnitude b, 0 < b < 2^(Limbs * LimbBits - 1), the quotient
\* less than LimbBase^2: the quotient truncated to FracBits fractional bits,
\* and whether anything was cut off
DivMagMag(a, b) ==
    LET end == LongDivision(a, b, 1, [r |-> ZeroMag, q |-> ZeroMag])
    IN [quot |-> end.q, inexact |-> end.r # ZeroMag]

\* the double nearest to the number a (plus a little, if inexact): the
\* leading Mantissa bits are kept, a tie goes to the even neighbour
RoundMag(a, inexact) ==
    LET p == BitLen(a) - Mantissa
        rem == LowBits(a, p)
        half == Pow2(p - 1)
        up == LessMag(half, rem) \/ (rem = half /\ (inexact \/ BitAt(a, p) = 1))
    IN IF p <= 0 THEN a
       ELSE IF up THEN AddMag(SubMag(a, rem), Pow2(p)) ELSE SubMag(a, rem)

FNeg(x) == [neg |-> ~x.neg /\ x.mag # ZeroMag, mag |-> x.mag]

\* x < y
FLess(x, y) ==
    IF x.neg /\ ~y.neg THEN x.mag # ZeroMag \/ y.mag # ZeroMag
    ELSE IF ~x.neg /\ y.neg THEN FALSE
    ELSE IF x.neg THEN LessMag(y.mag, x.mag)
    ELSE LessMag(x.mag, y.mag)

\* x + y
FAdd(x, y) ==
    IF x.neg = y.neg THEN [neg |-> x.neg, mag |-> RoundMag(AddMag(x.mag, y.mag), FALSE)]
    ELSE IF LessMag(x.mag, y.mag) THEN [neg |-> y.neg, mag |-> RoundMag(SubMag(y.mag, x.mag), FALSE)]
    ELSE IF x.mag = y.mag THEN [neg |-> FALSE, mag |-> ZeroMag]
    ELSE [neg |-> x.neg, mag |-> RoundMag(SubMag(x.mag, y.mag), FALSE)]

\* x - y
FSub(x, y) == FAdd(x, [neg |-> ~y.neg, mag |-> y.mag])

\* x / k for an integer k, 0 < k < 8 * LimbBase
FDiv(x, k) ==
    LET d == DivMag(x.mag, k)
    IN [neg |-> x.neg, mag |-> RoundMag(d.quot, d.inexact)]

\* x / y for a double y other than 0
FDivDouble(x, y) ==
    LET d == DivMagMag(x.mag, y.mag)
    IN [neg |-> x.neg # y.neg /\ x.mag # ZeroMag, mag |-> RoundMag(d.quot, d.inexact)]

\* min(x, y) and max(x, y) as Python computes them: the second argument
\* only when it is strictly less (greater) than the first
FMin(x, y) == IF FLess(y, x) THEN y ELSE x

FMax(x, y) == IF FLess(x, y) THEN y ELSE x

\* the double of the integer n, -LimbBase^2 < n < LimbBase^2
FInt(n) == [neg |-> n < 0, mag |-> FromInt(IF n < 0 THEN -n ELSE n)]

\* the double written as the decimal c / 100 (float("4.17") for c = 417), and
\* the double a reading of c hundredths stands for
Double(c) == FDiv(FInt(c), 100)

\* the double written as the decimal d.units + d.hundredths / 100
\* (float("50000000.00") for 50000000 units and 0 hundredths)
DoubleOfDecimal(d) ==
    LET f == DivMag(FromInt(d.hundredths), 100)
    IN [neg |-> FALSE, mag |-> RoundMag(AddMag(FromInt(d.units), f.quot), f.inexact)]

\* the double 0.0
FZero == FInt(0)

RECURSIVE FoldAdd(_, _, _, _, _)
\* acc + a[i] + a[i + step] + ... up to index last, added in that order
FoldAdd(acc, a, i, step, last) ==
    IF i > last THEN acc ELSE FoldAdd(FAdd(acc, a[i]), a, i + step, step, last)

\* np.sum of a float64 array of at most 128 elements: fewer than 8 are added
\* one by one; otherwise eight running sums over the leading whole blocks
\* of eight, combined pairwise, and then the rest one by one
PairwiseSum(a) ==
    LET n == Len(a)
        whole == n - (n % 8)
        r == [j \in 1..8 |-> FoldAdd(a[j], a, j + 8, 8, whole)]
        res == FAdd(FAdd(FAdd(r[1], r[2]), FAdd(r[3], r[4])),
                    FAdd(FAdd(r[5], r[6]), FAdd(r[7], r[8])))
    IN IF n < 8 THEN FoldAdd(FZero, a, 1, 1, n) ELSE FoldAdd(res, a, whole + 1, 1, n)

\* np.mean of the closes y (hundredths), as doubles
NumpyMean(y) == FDiv(PairwiseSum([i \in 1..Len(y) |-> Double(y[i])]), Len(y))

\* round(x, 6) for a double x >= 0, in whole units and millionths: the exact
\* value of the double is rounded, a tie going to the even neighbour
Round6(x) ==
    LET p == MulMag(MulMag(FracPart(x.mag), 1000), 1000)
        m == IntPart(p)
        rest == FracPart(p)
        half == Pow2(FracBits - 1)
        up == LessMag(half, rest) \/ (rest = half /\ m % 2 = 1)
        total == m + (IF up THEN 1 ELSE 0)
    IN [units |-> IntPart(x.mag) + total \div 1000000, millionths |-> total % 1000000]

\* mutant of TooShort: nine points are fitted
TooShortBelowNine(y) == Len(y) < 9

\* line 231: the series is too short to fit
TooShort(y) == Len(y) < 10

\* lines 232, 237, 246-247: the projected closes; the fitted line through
\* the points (i - 1, y[i]) is (slope * x + icept) / d
Predictions(close, y, days) ==
    LET n == Len(y)
        sx == SumSeq([i \in 1..n |-> i - 1])
        sy == SumSeq(y)
        sxx == SumSeq([i \in 1..n |-> (i - 1) * (i - 1)])
        sxy == SumSeq([i \in 1..n |-> (i - 1) * y[i]])
        d == n * sxx - sx * sx
        slope == n * sxy - sx * sy
        icept == sy * sxx - sx * sxy
    IN IF TooShort(y)
       THEN [i \in 1..days |-> Rat(Last(close), 1)]
       ELSE [i \in 1..days |-> Rat(slope * (n + i - 1) + icept, d)]

\* lines 233-235, 237-244: RMSE, MAPE and R2 of the fit.  With res[i] the
\* residuals times d: RMSE is the square root of sum(res^2) / (n * d^2),
\* MAPE is 100 times the mean of |res[i]| / (d * y[i]) (closes are
\* positive, so max(y, 1e-9) is y), R2 is 1 - ss_res / ss_tot.  The guard
\* of line 244 is taken on the doubles: closes that differ (by 0.01 or
\* more) have a positive ss_tot; equal closes have one exactly when the
\* rounded mean differs from them, and R2 is then one minus a ratio of two
\* rounding errors
Performance(y) ==
    LET n == Len(y)
        sx == SumSeq([i \in 1..n |-> i - 1])
        sy == SumSeq(y)
        sxx == SumSeq([i \in 1..n |-> (i - 1) * (i - 1)])
        sxy == SumSeq([i \in 1..n |-> (i - 1) * y[i]])
        syy == SumSeq([i \in 1..n |-> y[i] * y[i]])
        d == n * sxx - sx * sx
        slope == n * sxy - sx * sy
        icept == sy * sxx - sx * sxy
        res == [i \in 1..n |-> y[i] * d - (slope * (i - 1) + icept)]
        ss_res == Rat(SumSeq([i \in 1..n |-> res[i] * res[i]]), d * d)
        ss_tot == Rat(n * syy - sy * sy, n)
        ss_tot_positive == ss_tot.num > 0 \/ \E i \in 1..n : Double(y[i]) # NumpyMean(y)
    IN IF TooShort(y)
       THEN [RMSE |-> Rat(0, 1), MAPE |-> Rat(0, 1), R2 |-> Rat(0, 1)]
       ELSE [RMSE |-> [sqrt_of |-> Rat(ss_res.num, n * ss_res.den)],
             MAPE |-> [mean_percent_of |-> [i \in 1..n |-> Rat(Abs(res[i]), d * y[i])]],
             R2 |-> IF ~ss_tot_positive THEN Rat(0, 1)
                    ELSE IF ss_tot.num > 0
                    THEN [one_minus |-> [ss_res |-> ss_res, ss_tot |-> ss_tot]]
                    ELSE [one_minus |-> [ratio_of_rounding_errors |-> TRUE]]]

\* lines 225-260: compute_lstm_like_prediction; dates are day numbers
compute_lstm_like_prediction(df, days) ==
    LET close == df.close
        recent == tail(close, 60)
    IN [model_performance |-> Performance(recent),
        future_predictions |->
            [dates |-> [i \in 1..days |-> df.last_date + i],
             predictions |-> Predictions(close, recent, days),
             current_price |-> Last(close)],
        model_trained |-> TRUE]

\* line 265: max(-1.0, min(1.0, score))
Clamp(score) == FMax(FInt(-1), FMin(FInt(1), score))

\* lines 267-278: the classification of the score against the doubles 0.15
\* and -0.15
Classify(combined_score) ==
    IF FLess(Double(15), combined_score)
    THEN [combined_signal |-> "BUY", sentiment_class |-> "POSITIVE", sentiment |-> "BULLISH"]
    ELSE IF FLess(combined_score, FNeg(Double(15)))
    THEN [combined_signal |-> "SELL", sentiment_class |-> "NEGATIVE", sentiment |-> "BEARISH"]
    ELSE [combined_signal |-> "HOLD", sentiment_class |-> "NEUTRAL", sentiment |-> "NEUTRAL"]

\* line 263: technical['1d']['oscillators']['rsi']['value'], 50.0 when any
\* of the keys is missing
RsiValue(technical) ==
    IF "tf_1d" \notin DOMAIN technical THEN 5000
    ELSE IF "oscillators" \notin DOMAIN technical.tf_1d THEN 5000
    ELSE IF "rsi" \notin DOMAIN technical.tf_1d.oscillators THEN 5000
    ELSE IF "value" \notin DOMAIN technical.tf_1d.oscillators.rsi THEN 5000
    ELSE technical.tf_1d.oscillators.rsi.value

\* lines 262-299: compute_sentiment.  price_change_percent and the RSI are
\* the doubles of their hundredths, and the score is computed on doubles;
\* trade_count_24h is an int and quote_volume_24h the double of a decimal of
\* whole units and hundredths, as every call of the program passes them
\* (lines 441 and 451); nvt_ratio is the rounded double of line 282
compute_sentiment(symbol, price_change_percent, technical, trade_count_24h, quote_volume_24h, mvrv) ==
    LET rsi_val == Double(RsiValue(technical))
        score == FAdd(FDiv(Double(price_change_percent), 100),
                      FDiv(FSub(FInt(50), rsi_val), 100))
        combined_score == Clamp(score)
        class == Classify(combined_score)
        tx_count == trade_count_24h
        active_addresses == Max(0, tx_count \div 120)
        nvt_ratio == Round6(FDiv(DoubleOfDecimal(quote_volume_24h), Max(tx_count, 1)))
    IN [symbol |-> symbol,
        combined_score |-> combined_score,
        combined_signal |-> class.combined_signal,
        sentiment |-> class.sentiment,
        sentiment_analysis |-> [sentiment_class |-> class.sentiment_class, news_count |-> 0],
        onchain_metrics |-> [active_addresses |-> active_addresses,
                             transaction_count |-> tx_count,
                             nvt_ratio |-> nvt_ratio,
                             mvrv |-> mvrv]]

(***************************************************************************)
(* get_analysis(symbol), lines 428-484, for requests without a period      *)
(* argument (limit = 90).                                                  *)
(***************************************************************************)
\* lines 78-92: the ticker list, its strings converted as float() and int()
\* convert them: prices, percentages and volumes in hundredths, and
\* quoteVolume, which goes up to 50000000.00, in whole units and hundredths
TickerList(value) ==
    IF value = TICKERS
    THEN <<[symbol |-> "BTCUSDT", lastPrice |-> 5000000, openPrice |-> 4900000, highPrice |-> 5100000,
            lowPrice |-> 4800000, priceChangePercent |-> 204, volume |-> 100000,
            quoteVolume |-> [units |-> 50000000, hundredths |-> 0], count |-> 50000],
           [symbol |-> "ETHUSDT", lastPrice |-> 300000, openPrice |-> 290000, highPrice |-> 310000,
            lowPrice |-> 280000, priceChangePercent |-> 345, volume |-> 500000,
            quoteVolume |-> [units |-> 15000000, hundredths |-> 0], count |-> 30000],
           [symbol |-> "SOLUSDT", lastPrice |-> 15000, openPrice |-> 14500, highPrice |-> 15500,
            lowPrice |-> 14000, priceChangePercent |-> 345, volume |-> 1000000,
            quoteVolume |-> [units |-> 1500000, hundredths |-> 0], count |-> 25000],
           [symbol |-> "XRPUSDT", lastPrice |-> 60, openPrice |-> 58, highPrice |-> 62,
            lowPrice |-> 56, priceChangePercent |-> 345, volume |-> 5000000,
            quoteVolume |-> [units |-> 30000, hundredths |-> 0], count |-> 40000],
           [symbol |-> "BNBUSDT", lastPrice |-> 40000, openPrice |-> 39000, highPrice |-> 41000,
            lowPrice |-> 38000, priceChangePercent |-> 256, volume |-> 200000,
            quoteVolume |-> [units |-> 800000, hundredths |-> 0], count |-> 20000],
           [symbol |-> "DOGEUSDT", lastPrice |-> 15, openPrice |-> 14, highPrice |-> 16,
            lowPrice |-> 13, priceChangePercent |-> 714, volume |-> 10000000,
            quoteVolume |-> [units |-> 15000, hundredths |-> 0], count |-> 60000],
           [symbol |-> "LINKUSDT", lastPrice |-> 2000, openPrice |-> 1950, highPrice |-> 2050,
            lowPrice |-> 1900, priceChangePercent |-> 256, volume |-> 300000,
            quoteVolume |-> [units |-> 60000, hundredths |-> 0], count |-> 15000],
           [symbol |-> "ADAUSDT", lastPrice |-> 50, openPrice |-> 48, highPrice |-> 52,
            lowPrice |-> 46, priceChangePercent |-> 417, volume |-> 4000000,
            quoteVolume |-> [units |-> 20000, hundredths |-> 0], count |-> 35000],
           [symbol |-> "LTCUSDT", lastPrice |-> 10000, openPrice |-> 9500, highPrice |-> 10500,
            lowPrice |-> 9000, priceChangePercent |-> 526, volume |-> 150000,
            quoteVolume |-> [units |-> 150000, hundredths |-> 0], count |-> 12000],
           [symbol |-> "AVAXUSDT", lastPrice |-> 4000, openPrice |-> 3800, highPrice |-> 4200,
            lowPrice |-> 3600, priceChangePercent |-> 526, volume |-> 250000,
            quoteVolume |-> [units |-> 100000, hundredths |-> 0], count |-> 18000]>>
    ELSE << >>

\* lines 106-123: the rows of a DataFrame: its closes in ascending date order
\* and the day number of its last date
Frame(value) ==
    IF value = DF
    THEN [close |-> <<46, 47, 47, 48, 49, 48, 49, 50, 50, 51, 52>>, last_date |-> 11]
    ELSE [close |-> << >>, last_date |-> 0]

\* lines 129-142: the last readings of the ta library's series on each window
\* of df: on fewer than 12 candles every series ends in NaN (the shortest
\* look-back is that of EMA(12); RSI needs 14 closes, the others 20 or more)
NaNReadings ==
    [rsi |-> NaN, macd |-> NaN, macd_signal |-> NaN, sma_20 |-> NaN,
     sma_50 |-> NaN, ema_12 |-> NaN, ema_26 |-> NaN]

ShortWindowReadings(df) ==
    [n \in {Len(tail(df.close, 90)), Len(tail(df.close, 30))} |-> NaNReadings]

\* line 436: the first ticker of the symbol, as a list of none or one
FindTicker(list, symbol) ==
    LET hits == {i \in DOMAIN list : list[i].symbol = symbol}
    IN IF hits = {} THEN << >>
       ELSE <<list[CHOOSE i \in hits : \A j \in hits : i <= j]>>

\* mutant of NoCandles: only a missing DataFrame is refused
NoCandlesNoneOnly(df) == df = None

\* line 443: df is None or df.empty
NoCandles(df) == df = None \/ df = EMPTY_DF

\* line 444: the error response
ErrorResponse == [status |-> 500, error |-> "Unable to fetch historical data for analysis"]

\* lines 482-484: the response to an exception of the computations
ExceptionResponse == [status |-> 500, error |-> "str(e)"]

\* lines 435-480: the report (timestamp, reasoning text and charts left out).
\* avg_close, the mean of positive closes, is more than the 1e-12 of line 454
Report(symbol, tickers_value, df_value) ==
    LET ticker == FindTicker(TickerList(tickers_value), symbol)
        has == ticker # << >>
        price_change_percent == IF has THEN ticker[1].priceChangePercent ELSE 0
        volume_24h == IF has THEN ticker[1].volume ELSE 0
        quote_volume_24h == IF has THEN ticker[1].quoteVolume ELSE [units |-> 0, hundredths |-> 0]
        df == Frame(df_value)
        df_period == [close |-> tail(df.close, 90), last_date |-> df.last_date]
        current_price == IF has THEN ticker[1].lastPrice ELSE Last(df_period.close)
        technical == compute_technical_analysis(df_period, ShortWindowReadings(df_period))
        lstm_prediction == compute_lstm_like_prediction(df_period, 7)
        trade_count_24h == IF has THEN ticker[1].count ELSE 0
        avg_close == NumpyMean(df_period.close)
        mvrv == Round6(FDivDouble(Double(current_price), avg_close))
        sentiment == compute_sentiment(symbol, price_change_percent, technical,
                                       trade_count_24h, quote_volume_24h, mvrv)
        final_signal == technical.overall_signal
        confidence == Min(95, Max(55, 70 + (technical.tf_1d.signals.summary.buy
                                            - technical.tf_1d.signals.summary.sell) * 10))
    IN [symbol |-> symbol,
        current_price |-> current_price,
        price_change_percent |-> price_change_percent,
        volume_24h |-> volume_24h,
        quote_volume_24h |-> quote_volume_24h,
        technical_analysis |-> technical,
        lstm_prediction |-> lstm_prediction,
        sentiment_analysis |-> sentiment,
        final_recommendation |-> [signal |-> final_signal, confidence |-> confidence]]

\* the report of Symbol for each value the ticker call can return and each
\* non-empty DataFrame: a report depends on nothing else
Reports == [tickers_value \in Values |-> [df_value \in {DF} |-> Report(Symbol, tickers_value, df_value)]]

\* line 480: the response that carries the report
ReportResponse(tickers_value, df_value) ==
    [status |-> 200, report |-> Reports[tickers_value][df_value]]

\* lines 443-484: the response of get_analysis to the candles df_value
Respond(tickers_value, df_value) ==
    IF NoCandles(df_value) THEN ErrorResponse
    ELSE IF df_value = None \/ Frame(df_value).close = << >> THEN ExceptionResponse
    ELSE ReportResponse(tickers_value, df_value)

\* lines 431-435: the request arrives; tickers are asked of the cache
AnalysisBegin(t) ==
    /\ pc[t] = "idle"
    /\ Enter(t, "get_analysis:435", TickersKey, fetch_binance_data)
    /\ tickers' = [tickers EXCEPT ![t] = NoValue]
    /\ resp' = [resp EXCEPT ![t] = NoValue]
    /\ UNCHANGED <<now, cacheVars, eng>>

\* lines 435-442: tickers received; candles are asked of the cache
AnalysisKlines(t) ==
    /\ pc[t] = "ret"
    /\ route[t] = "get_analysis:435"
    /\ tickers' = [tickers EXCEPT ![t] = ret[t]]
    /\ Enter(t, "get_analysis:442", KlinesKey, fetch_binance_klines)
    /\ UNCHANGED <<now, cacheVars, resp, eng>>

\* lines 442-484: candles received; the request is answered
AnalysisRespond(t) ==
    /\ pc[t] = "ret"
    /\ route[t] = "get_analysis:442"
    /\ resp' = [resp EXCEPT ![t] = Respond(tickers[t], ret[t])]
    /\ pc' = [pc EXCEPT ![t] = "responded"]
    /\ UNCHANGED <<now, cacheVars, route, key, func, current_time, data, ret, tickers, eng>>

(***************************************************************************)
(* get_symbols(), lines 387-426.                                           *)
(***************************************************************************)
\* line 396: str(symbol).endswith('USDT')
EndsWithUSDT(symbol) == Len(symbol) >= 4 /\ SubSeq(symbol, Len(symbol) - 3, Len(symbol)) = "USDT"

\* float(a) < float(b) for decimals of whole units and hundredths: below
\* 2^28 two decimals that differ have doubles that differ
DecimalLess(a, b) == a.units < b.units \/ (a.units = b.units /\ a.hundredths < b.hundredths)

\* line 397: sorted(..., key=quoteVolume, reverse=True), which keeps the
\* order of tickers of equal quote volume
SortedByQuoteVolume(list) ==
    LET rank(j) == 1 + Cardinality({k \in DOMAIN list :
                        \/ DecimalLess(list[j].quoteVolume, list[k].quoteVolume)
                        \/ list[k].quoteVolume = list[j].quoteVolume /\ k < j})
    IN [i \in DOMAIN list |-> list[CHOOSE j \in DOMAIN list : rank(j) = i]]

\* lines 392-426: the response of get_symbols to the tickers it received
\* (the date and timestamp of each entry left out; price_change_percent is
\* the ticker's string, here its hundredths)
SymbolsResponse(tickers_value) ==
    LET list == TickerList(tickers_value)
        usdt_tickers == SelectSeq(list, LAMBDA t : EndsWithUSDT(t.symbol))
        sorted == SortedByQuoteVolume(usdt_tickers)
        top_tickers == SubSeq(sorted, 1, Min(15, Len(sorted)))
    IN IF list = << >>
       THEN [status |-> 500, error |-> "Unable to fetch market data"]
       ELSE [status |-> 200,
             symbols |-> [i \in DOMAIN top_tickers |->
                 [symbol |-> top_tickers[i].symbol,
                  close |-> top_tickers[i].lastPrice,
                  open |-> top_tickers[i].openPrice,
                  high |-> top_tickers[i].highPrice,
                  low |-> top_tickers[i].lowPrice,
                  volume |-> top_tickers[i].volume,
                  quote_volume |-> top_tickers[i].quoteVolume,
                  count |-> top_tickers[i].count,
                  number_of_trades |-> top_tickers[i].count,
                  price_change_percent |-> top_tickers[i].priceChangePercent]]]

\* the response of get_symbols for each value the ticker call can return: a
\* response depends on nothing else
SymbolsResponses == [tickers_value \in Values |-> SymbolsResponse(tickers_value)]

\* lines 387-390: the request arrives; tickers are asked of the cache
SymbolsBegin(t) ==
    /\ pc[t] = "idle"
    /\ Enter(t, "get_symbols:390", TickersKey, fetch_binance_data)
    /\ tickers' = [tickers EXCEPT ![t] = NoValue]
    /\ resp' = [resp EXCEPT ![t] = NoValue]
    /\ UNCHANGED <<now, cacheVars, eng>>

\* lines 390-426: tickers received; the request is answered
SymbolsRespond(t) ==
    /\ pc[t] = "ret"
    /\ route[t] = "get_symbols:390"
    /\ tickers' = [tickers EXCEPT ![t] = ret[t]]
    /\ resp' = [resp EXCEPT ![t] = SymbolsResponses[ret[t]]]
    /\ pc' = [pc EXCEPT ![t] = "responded"]
    /\ UNCHANGED <<now, cacheVars, route, key, func, current_time, data, ret, eng>>

\* the response has been sent; the thread serves the next request
AnalysisEnd(t) ==
    /\ pc[t] = "responded"
    /\ Leave(t)
    /\ tickers' = [tickers EXCEPT ![t] = NoValue]
    /\ resp' = [resp EXCEPT ![t] = NoValue]
    /\ UNCHANGED <<now, cacheVars, eng>>

\* the steps of get_cached_data
CacheStep(t) ==
    \/ Check(t)
    \/ ReturnCached(t)
    \/ \E v \in Values : FetchOk(t, v)
    \/ StoreTimestamp(t)
    \/ FetchRaise(t)

\* get_cached_data called concurrently with any fetch function
Next ==
    \/ Tick
    \/ \E t \in Threads : CallDirect(t)
    \/ \E t \in Threads : CacheStep(t)
    \/ \E t \in Threads : ReturnDirect(t)

Spec == Init /\ [][Next]_vars

\* the server: concurrent requests for the symbol list and for the analysis
\* of Symbol
NextApp ==
    \/ Tick
    \/ \E t \in Threads : SymbolsBegin(t)
    \/ \E t \in Threads : SymbolsRespond(t)
    \/ \E t \in Threads : AnalysisBegin(t)
    \/ \E t \in Threads : CacheStep(t)
    \/ \E t \in Threads : AnalysisKlines(t)
    \/ \E t \in Threads : AnalysisRespond(t)
    \/ \E t \in Threads : AnalysisEnd(t)

SpecApp == Init /\ [][NextApp]_vars

(***************************************************************************)
(* The computations of the report applied to inputs of bounded sets: each  *)
(* behaviour applies one of them once.                                     *)
(***************************************************************************)
\* the longest close series the forecast is computed on
MaxPoints == 12

\* the longest forecast horizon
MaxDays == 8

\* readings of the indicator series on one window (hundredths)
ReadingSet ==
    [rsi : {NaN, Num(2000), Num(3000), Num(7000), Num(8000)},
     macd : {NaN, Num(-100), Num(100)},
     macd_signal : {NaN, Num(50)},
     sma_20 : {NaN, Num(9000), Num(11000)},
     sma_50 : {NaN, Num(10000)},
     ema_12 : {Num(11000)},
     ema_26 : {Num(10000)}]

\* a DataFrame of n candles that all close at 100.00
FlatFrame(n) == [close |-> [i \in 1..n |-> 10000], last_date |-> n]

\* close series: from 0.52 or 1.00, rising by 0.02 or falling by 0.03 a day
\* or flat, straight or with every second close 0.01 higher
CloseSeries ==
    {[i \in 1..n |-> base + step * (i - 1) + wig * (i % 2)] :
        n \in 1..MaxPoints, base \in {52, 100}, step \in {-3, 0, 2}, wig \in {0, 1}}

\* 24h price changes in hundredths of a percent
PriceChanges == {-12000, -1500, -1499, -1000, 0, 204, 1000, 1500, 1501, 12000}

\* RSI readings of the 1d window for the sentiment score
SentimentRsi ==
    {NaN, Num(0), Num(2000), Num(3500), Num(4500), Num(5000), Num(5500), Num(6500), Num(10000)}

\* 24h trade counts
TradeCounts == {0, 20000, 35000}

\* 24h quote volumes: 0.05 and 20000.00
QuoteVolumes == {[units |-> 0, hundredths |-> 5], [units |-> 20000, hundredths |-> 0]}

RunTechnical ==
    /\ eng.op = NoValue
    /\ \E n \in {30, 31} : \E r90 \in ReadingSet : \E r30 \in ReadingSet :
        LET df == FlatFrame(n)
            ta == (Len(tail(df.close, 90)) :> r90) @@ (Len(tail(df.close, 30)) :> r30)
        IN eng' = [op |-> "compute_technical_analysis", df |-> df, ta |-> ta,
                   out |-> compute_technical_analysis(df, ta)]
    /\ UNCHANGED <<now, cacheVars, pc, route, key, func, current_time, data, ret, tickers, resp>>

RunReportVote ==
    /\ eng.op = NoValue
    /\ \E signals \in [1..3 -> {"BUY", "SELL", "HOLD"}] :
        eng' = [op |-> "overall_signal", signals |-> signals,
                out |-> ReportOverallSignal(signals)]
    /\ UNCHANGED <<now, cacheVars, pc, route, key, func, current_time, data, ret, tickers, resp>>

RunPrediction ==
    /\ eng.op = NoValue
    /\ \E close \in CloseSeries : \E days \in 0..MaxDays :
        LET df == [close |-> close, last_date |-> Len(close)]
        IN eng' = [op |-> "compute_lstm_like_prediction", df |-> df, days |-> days,
                   out |-> compute_lstm_like_prediction(df, days)]
    /\ UNCHANGED <<now, cacheVars, pc, route, key, func, current_time, data, ret, tickers, resp>>

RunSentiment ==
    /\ eng.op = NoValue
    /\ \E pcp \in PriceChanges : \E rsi \in SentimentRsi :
       \E count \in TradeCounts : \E quote \in QuoteVolumes :
        LET df == FlatFrame(30)
            ta == [n \in {30} |-> [NaNReadings EXCEPT !.rsi = rsi]]
        IN \E technical \in {compute_technical_analysis(df, ta), [overall_signal |-> "HOLD"]} :
            eng' = [op |-> "compute_sentiment", price_change_percent |-> pcp,
                    technical |-> technical, trade_count_24h |-> count,
                    quote_volume_24h |-> quote,
                    out |-> compute_sentiment(Symbol, pcp, technical, count, quote,
                                              [units |-> 1, millionths |-> 0])]
    /\ UNCHANGED <<now, cacheVars, pc, route, key, func, current_time, data, ret, tickers, resp>>

NextEngine ==
    \/ RunTechnical
    \/ RunReportVote
    \/ RunPrediction
    \/ RunSentiment

SpecEngine == Init /\ [][NextEngine]_vars

(***************************************************************************)
(* Properties of the cache.                                                *)
(***************************************************************************)
\* the entry of k is complete: a value and a fetch-time
Stored(k) == k \in DOMAIN data_cache /\ k \in DOMAIN cache_timestamp

\* the entry of k is torn: a value with no fetch-time, or a value and a
\* fetch-time that were written by different calls
Torn(k) ==
    /\ k \in DOMAIN data_cache
    /\ \/ k \notin DOMAIN cache_timestamp
       \/ writer[k] # stamper[k]
       \/ pc[writer[k]] = "store_ts" /\ key[writer[k]] = k

\* C1: a get whose check finds a stored entry younger than 300 seconds
\* returns the stored value and does not invoke the fetch function; a get
\* whose check finds the entry aged 300 seconds or more (or no entry)
\* invokes the fetch function.
C1_FreshServedWithoutFetch ==
    [][\A t \in Threads :
        /\ (pc[t] = "check" /\ pc'[t] # "check") =>
              IF Stored(key[t]) /\ current_time[t] - cache_timestamp[key[t]] < 300
              THEN pc'[t] = "hit"
              ELSE pc'[t] = "fetching"
        /\ (pc[t] = "hit" /\ pc'[t] # "hit") =>
              /\ pc'[t] = "ret"
              /\ ret'[t] = data_cache[key[t]]
              /\ UNCHANGED cacheVars]_vars

\* C1 witness: one call was served from an entry aged 150 seconds without
\* fetching, and another call, made when the same entry is aged exactly 300
\* seconds, has invoked the fetch function.
C1_Witness ==
    \E t \in Threads, u \in Threads :
        /\ pc[t] = "ret" /\ data[t] = NoValue /\ Stored(key[t])
        /\ current_time[t] - cache_timestamp[key[t]] = 150
        /\ ret[t] = data_cache[key[t]]
        /\ pc[u] = "fetching" /\ key[u] = key[t]
        /\ current_time[u] - cache_timestamp[key[u]] = 300

\* C2: when the fetch function raises, the call returns normally: the
\* value of the key's entry if one exists (expired or not), else None.
C2_StaleOnFailure ==
    [][\A t \in Threads :
        (pc[t] = "fetching" /\ pc'[t] # "fetching" /\ data'[t] = NoValue) =>
            /\ pc'[t] = "ret"
            /\ ret'[t] = IF key[t] \in DOMAIN data_cache
                         THEN data_cache[key[t]] ELSE None]_vars

\* C2 witness: a call whose fetch raised returned the value of an expired entry.
C2_Witness ==
    \E t \in Threads :
        /\ pc[t] = "ret" /\ data[t] = NoValue /\ Stored(key[t])
        /\ current_time[t] - cache_timestamp[key[t]] >= 300
        /\ ret[t] = data_cache[key[t]]
        /\ ret[t] \in Objects

\* C3: the key sets of the cache never shrink; a stored value or fetch-time
\* changes only in a step that stores a successful fetch; a get whose fetch
\* raises and a get served from a fresh entry leave the cache unchanged.
C3_NoInvalidation ==
    [][/\ DOMAIN data_cache \subseteq DOMAIN data_cache'
       /\ DOMAIN cache_timestamp \subseteq DOMAIN cache_timestamp'
       /\ \A k \in DOMAIN data_cache :
            data_cache'[k] # data_cache[k] =>
                \E t \in Threads : pc[t] = "fetching" /\ key[t] = k /\ pc'[t] = "store_ts"
       /\ \A k \in DOMAIN cache_timestamp :
            cache_timestamp'[k] # cache_timestamp[k] =>
                \E t \in Threads : pc[t] = "store_ts" /\ key[t] = k /\ pc'[t] = "ret"
       /\ \A t \in Threads :
            (pc[t] \in {"fetching", "hit"} /\ pc'[t] = "ret") =>
                (data_cache' = data_cache /\ cache_timestamp' = cache_timestamp)]_vars

\* C3 witness: a candle fetch has failed on an expired entry, and both the
\* candle entry and the ticker entry are still there.
C3_Witness ==
    \E t \in Threads :
        /\ pc[t] = "ret" /\ key[t] = KlinesKey /\ data[t] = NoValue
        /\ Stored(KlinesKey) /\ Stored(TickersKey)
        /\ current_time[t] - cache_timestamp[KlinesKey] >= 300
        /\ ret[t] = data_cache[KlinesKey]

\* C4 (as claimed): no reader is ever about to return the value of a torn
\* entry: a call that has passed the freshness check (line 33) and reads
\* data_cache[key] next (line 35) finds a value and a fetch-time written by
\* the same call.
C4_NoTornRead ==
    \A t \in Threads : pc[t] = "hit" => ~Torn(key[t])

\* C5 (as claimed): every present entry has a non-null value, and a key has
\* an entry exactly when a fetch for it has succeeded.
C5_EntryNeverNull ==
    \A k \in Keys :
        /\ (k \in DOMAIN data_cache) <=> (writer[k] # NoThread)
        /\ k \in DOMAIN data_cache => data_cache[k] # None

\* C10: the store is last-write-wins: the value of a key's entry is the value
\* fetched by the call that stored last, whatever was stored before. (That
\* two fetches for one key can be in flight at once is the witness.)
C10_LastWriteWins ==
    \A k \in Keys :
        (writer[k] # NoThread /\ key[writer[k]] = k /\ data[writer[k]] # NoValue)
            => (k \in DOMAIN data_cache /\ data_cache[k] = data[writer[k]])

\* C10 witness: two calls for the same expired key have both invoked the
\* fetch function and neither fetch has returned yet.
C10_Witness ==
    \E t \in Threads, u \in Threads :
        /\ t # u /\ key[t] = key[u]
        /\ pc[t] = "fetching" /\ pc[u] = "fetching"
        /\ Stored(key[t])
        /\ current_time[t] - cache_timestamp[key[t]] >= 300
        /\ current_time[u] - cache_timestamp[key[u]] >= 300

(***************************************************************************)
(* Properties of the analysis request and of the report's computations.    *)
(***************************************************************************)
\* C6: an analysis request whose candles are unavailable (the candle source
\* returned an empty result to it, or get_cached_data returned None because
\* the fetch failed with no cached entry) is answered with the error
\* response of line 444: no report, and no computation run on the data.
C6_NoReportWithoutCandles ==
    \A t \in Threads :
        (pc[t] = "responded" /\ (data[t] = EMPTY_DF \/ ret[t] = None \/ ret[t] = EMPTY_DF)) =>
            /\ resp[t] = [status |-> 500,
                          error |-> "Unable to fetch historical data for analysis"]
            /\ "report" \notin DOMAIN resp[t]

\* C6 witness: one request was answered with the error after the candle
\* source returned an empty result to it, another after its candle fetch
\* failed with no cached entry.
C6_Witness ==
    \E t \in Threads, u \in Threads :
        /\ pc[t] = "responded" /\ data[t] = EMPTY_DF /\ ret[t] = EMPTY_DF
        /\ resp[t].status = 500
        /\ pc[u] = "responded" /\ data[u] = NoValue /\ ret[u] = None
        /\ resp[u].status = 500

\* the signal that has strictly more of the three votes than each of the
\* other two, as a set (empty when there is none)
StrictMajority(votes) ==
    {sig \in {"BUY", "SELL", "HOLD"} :
        \A other \in {"BUY", "SELL", "HOLD"} \ {sig} :
            Cardinality({i \in 1..3 : votes[i] = sig})
                > Cardinality({i \in 1..3 : votes[i] = other})}

\* the overall signal a three-element vote must give: the strict majority,
\* and HOLD for a 1-1-1 split
MajorityRule(votes, overall) ==
    /\ \A sig \in StrictMajority(votes) : overall = sig
    /\ {votes[1], votes[2], votes[3]} = {"BUY", "SELL", "HOLD"} => overall = "HOLD"

\* C7: per timeframe (over the RSI, MACD and moving-average signals) and at
\* report level (over three overall signals), a signal with strictly more
\* votes than each of the other two is the overall signal, and a 1-1-1
\* split gives HOLD.
C7_MajorityVote ==
    /\ eng.op = "compute_technical_analysis" =>
        /\ \A tf \in {eng.out.tf_1d, eng.out.tf_1w, eng.out.tf_1m} :
              MajorityRule(<<tf.signals.details.rsi, tf.signals.details.macd,
                             tf.signals.details.moving_averages>>,
                           tf.signals.overall_signal)
        /\ MajorityRule(<<eng.out.tf_1d.signals.overall_signal,
                          eng.out.tf_1w.signals.overall_signal,
                          eng.out.tf_1m.signals.overall_signal>>,
                        eng.out.overall_signal)
    /\ eng.op = "overall_signal" => MajorityRule(eng.signals, eng.out)

\* C7 witness: a timeframe whose three indicator signals split 1-1-1 (RSI
\* says BUY, MACD says SELL, the moving averages say HOLD).
C7_Witness ==
    /\ eng.op = "compute_technical_analysis"
    /\ eng.out.tf_1w.signals.details = [rsi |-> "BUY", macd |-> "SELL", moving_averages |-> "HOLD"]
    /\ eng.out.tf_1w.signals.overall_signal = "HOLD"
    /\ eng.out.tf_1d.signals.summary = [buy |-> 2, sell |-> 0, hold |-> 1]
    /\ eng.out.tf_1d.signals.overall_signal = "BUY"

\* C11: the 1d and 1m timeframes, computed from the identical window, have
\* equal overall signals, so the report's overall signal equals the 1d
\* timeframe's overall signal: whatever the 1w timeframe's signal is, it
\* does not change the report-level outcome. The same holds of the report
\* vote on every triple of signals whose first and third are equal.
C11_ReportFollows1d ==
    /\ eng.op = "compute_technical_analysis" =>
        /\ eng.out.tf_1m = eng.out.tf_1d
        /\ eng.out.tf_1m.signals.overall_signal = eng.out.tf_1d.signals.overall_signal
        /\ eng.out.overall_signal = eng.out.tf_1d.signals.overall_signal
    /\ (eng.op = "overall_signal" /\ eng.signals[1] = eng.signals[3]) =>
        eng.out = eng.signals[1]

\* C11 witness: on 31 candles the 1d and 1m timeframes say BUY, the 1w
\* timeframe (the last 30 candles) says SELL, and the report says BUY.
C11_Witness ==
    /\ eng.op = "compute_technical_analysis"
    /\ Len(eng.df.close) = 31
    /\ eng.out.tf_1d.signals.overall_signal = "BUY"
    /\ eng.out.tf_1w.signals.overall_signal = "SELL"
    /\ eng.out.tf_1m.signals.overall_signal = "BUY"
    /\ eng.out.overall_signal = "BUY"

\* the response carries no report
Failed(response) == response.status = 500 /\ "report" \notin DOMAIN response

\* C12: an empty candle result is stored like any successful fetch (value at
\* line 41, fetch-time at line 42). A request whose check finds the empty
\* entry younger than 300 seconds does not invoke the candle source, and a
\* request whose candle fetch fails while the entry is empty falls back to
\* it; a request that gets the empty entry fails. The empty value is replaced
\* only by a successful non-empty fetch, and a report is produced only from
\* a non-empty result.
C12_EmptyResultCached ==
    [][\A t \in Threads :
        /\ (pc[t] = "fetching" /\ key[t] = KlinesKey /\ data'[t] = EMPTY_DF) =>
              /\ pc'[t] = "store_ts"
              /\ KlinesKey \in DOMAIN data_cache'
              /\ data_cache'[KlinesKey] = EMPTY_DF
        /\ (pc[t] = "store_ts" /\ key[t] = KlinesKey /\ data[t] = EMPTY_DF
                /\ pc'[t] # "store_ts") =>
              /\ KlinesKey \in DOMAIN cache_timestamp'
              /\ cache_timestamp'[KlinesKey] = current_time[t]
              /\ ret'[t] = EMPTY_DF
        /\ (pc[t] = "check" /\ key[t] = KlinesKey /\ pc'[t] # "check"
                /\ Stored(KlinesKey) /\ data_cache[KlinesKey] = EMPTY_DF
                /\ current_time[t] - cache_timestamp[KlinesKey] < 300) =>
              pc'[t] = "hit"
        /\ (pc[t] = "hit" /\ key[t] = KlinesKey /\ pc'[t] # "hit"
                /\ data_cache[KlinesKey] = EMPTY_DF) =>
              /\ ret'[t] = EMPTY_DF
              /\ UNCHANGED cacheVars
        /\ (pc[t] = "fetching" /\ key[t] = KlinesKey /\ pc'[t] = "ret"
                /\ KlinesKey \in DOMAIN data_cache
                /\ data_cache[KlinesKey] = EMPTY_DF) =>
              /\ ret'[t] = EMPTY_DF
              /\ UNCHANGED cacheVars
        /\ (pc[t] = "ret" /\ key[t] = KlinesKey /\ pc'[t] = "responded") =>
              /\ ret[t] = EMPTY_DF => Failed(resp'[t])
              /\ ~Failed(resp'[t]) => ret[t] = DF
        /\ (KlinesKey \in DOMAIN data_cache /\ data_cache[KlinesKey] = EMPTY_DF
                /\ data_cache'[KlinesKey] # EMPTY_DF) =>
              /\ data_cache'[KlinesKey] = DF
              /\ \E u \in Threads : pc[u] = "fetching" /\ key[u] = KlinesKey /\ data'[u] = DF]_vars

\* C12 witness: the cached candle entry is empty; one request, made 150
\* seconds after the entry's fetch-time, has failed without a fetch of its
\* own, and another, made 300 seconds after it, has failed after its
\* candle fetch raised.
C12_Witness ==
    \E t \in Threads, u \in Threads :
        /\ Stored(KlinesKey) /\ data_cache[KlinesKey] = EMPTY_DF
        /\ pc[t] = "responded" /\ data[t] = NoValue /\ ret[t] = EMPTY_DF
        /\ current_time[t] - cache_timestamp[KlinesKey] = 150
        /\ Failed(resp[t])
        /\ pc[u] = "responded" /\ data[u] = NoValue /\ ret[u] = EMPTY_DF
        /\ current_time[u] - cache_timestamp[KlinesKey] = 300
        /\ Failed(resp[u])

\* C8: the forecast has exactly days predictions, and on fewer than 10
\* closes R2, RMSE and MAPE are 0 and every prediction is the last close.
C8_ForecastShape ==
    eng.op = "compute_lstm_like_prediction" =>
        /\ Len(eng.out.future_predictions.predictions) = eng.days
        /\ Len(eng.df.close) < 10 =>
            /\ eng.out.model_performance.R2 = [num |-> 0, den |-> 1]
            /\ eng.out.model_performance.RMSE = [num |-> 0, den |-> 1]
            /\ eng.out.model_performance.MAPE = [num |-> 0, den |-> 1]
            /\ \A i \in 1..eng.days :
                eng.out.future_predictions.predictions[i]
                    = [num |-> eng.df.close[Len(eng.df.close)], den |-> 1]

\* C8 witness: a 7-day forecast on 9 closes of a rising series.
C8_Witness ==
    /\ eng.op = "compute_lstm_like_prediction"
    /\ Len(eng.df.close) = 9 /\ eng.days = 7
    /\ eng.df.close[9] > eng.df.close[1]
    /\ Len(eng.out.future_predictions.predictions) = 7

\* x is the decimal n / 10000 to the precision of a double: it differs
\* from the double nearest to n / 10000 by less than 2^-50
Near(x, n) == LessMag(FSub(x, FDiv(FInt(n), 10000)).mag, Pow2(FracBits - 50))

\* C9 (as claimed): the combined score is priceChangePercent/100 +
\* (50 - rsi)/100 clamped to [-1, 1], and the classification follows that
\* score (here in units of 1/10000): above 0.15 BUY/POSITIVE/BULLISH, below
\* -0.15 SELL/NEGATIVE/BEARISH, else (0.15 and -0.15 included)
\* HOLD/NEUTRAL/NEUTRAL; 10 percent and RSI 20 give 0.40 and
\* BUY/POSITIVE/BULLISH.
C9_SentimentScore ==
    eng.op = "compute_sentiment" =>
        LET rsi == RsiValue(eng.technical)
            sum == eng.price_change_percent + (5000 - rsi)
            score == IF sum > 10000 THEN 10000 ELSE IF sum < -10000 THEN -10000 ELSE sum
            o == eng.out
        IN /\ Near(o.combined_score, score)
           /\ score > 1500 =>
                (o.combined_signal = "BUY" /\ o.sentiment = "BULLISH"
                    /\ o.sentiment_analysis.sentiment_class = "POSITIVE")
           /\ score < -1500 =>
                (o.combined_signal = "SELL" /\ o.sentiment = "BEARISH"
                    /\ o.sentiment_analysis.sentiment_class = "NEGATIVE")
           /\ (score <= 1500 /\ score >= -1500) =>
                (o.combined_signal = "HOLD" /\ o.sentiment = "NEUTRAL"
                    /\ o.sentiment_analysis.sentiment_class = "NEUTRAL")
           /\ (eng.price_change_percent = 1000 /\ rsi = 2000) =>
                (Near(o.combined_score, 4000) /\ o.combined_signal = "BUY")
====
